---- MODULE Spec2Model ----
(***************************************************************************)
(* Model of src/src/extension.ts: the AIMentorPanel controller (singleton  *)
(* reference, listener list, reply and retry timers), the webview script   *)
(* (the Surface: tab, chat log, "explain error" affordance) and the two    *)
(* message streams between them.                                           *)
(*                                                                         *)
(* The extension host runs one callback at a time.  Every handler is one   *)
(* action, except disposal, which is a chain of nested calls               *)
(* (panel.dispose -> onDidDispose -> AIMentorPanel.dispose ->              *)
(* panel.dispose ...) and is modelled by an explicit call stack; no other  *)
(* action is enabled while the stack is not empty.                         *)
(***************************************************************************)
EXTENDS Naturals, Sequences, FiniteSets

\* ------------------------------------------------------------------ bounds
MaxInst == 2        \* panel instances ever constructed
MaxSteps == 3       \* commands, clicks and edits in a run (closing a panel is not counted)
NumDocs == 2        \* documents the host has open

\* --------------------------------------------------------- program constants
ViewColumnOne == 1  \* vscode.ViewColumn.One

Insts == 1..MaxInst
Docs == 1..NumDocs
NoPanel == 0        \* AIMentorPanel.currentPanel === undefined
NoEditor == 0       \* vscode.window.activeTextEditor === undefined
NoColumn == 0       \* a view column that is undefined

VARIABLES
  activated,        \* activate() has run
  currentPanel,     \* AIMentorPanel.currentPanel: an instance or NoPanel
  created,          \* number of AIMentorPanel instances constructed so far
  panelDisposed,    \* [inst -> BOOLEAN]: the host panel of the instance is disposed
  viewColumn,       \* [inst -> column]: where the host shows the panel
  _disposables,     \* [inst -> Seq(listener)]: this._disposables
  listeners,        \* [inst -> SUBSET listener]: handlers still subscribed to the panel's events
  stack,            \* call stack of the disposal in progress (top = last)
  timers,           \* pending setTimeout callbacks, in firing order
  outMsgs,          \* [inst -> Seq(msg)]: every message the Controller posted to the Surface
  outDelivered,     \* [inst -> Nat]: how many of them the Surface has handled
  inMsgs,           \* [inst -> Seq(msg)]: every message the Surface posted to the Controller
  inDelivered,      \* [inst -> Nat]: how many of them the Controller has dispatched
  surface,          \* [inst -> record]: the webview script's state
  activeTextEditor, \* the document of vscode.window.activeTextEditor, or NoEditor
  diagnostics,      \* [doc -> Seq(finding)]: vscode.languages.getDiagnostics
  diagEvent,        \* a diagnostics-change event is waiting to be fired
  notifications,    \* texts shown by vscode.window.showInformationMessage
  raised,           \* an exception escaped a callback
  calls,            \* [inst -> [method -> Nat]]: invocations of the instance's methods
  commands,         \* [command -> Nat]: runs of the extension's commands
  seen,             \* [inst -> record]: the findings the last updateDiagnostics run read
  steps             \* host and user events so far

vars == <<activated, currentPanel, created, panelDisposed, viewColumn, _disposables,
          listeners, stack, timers, outMsgs, outDelivered, inMsgs, inDelivered,
          surface, activeTextEditor, diagnostics, diagEvent, notifications, raised,
          calls, commands, seen, steps>>

\* ------------------------------------------------------------------- texts
\* A text is a sequence of tokens; " " is white space.
RECURSIVE TrimLeft(_)
TrimLeft(s) == IF s # <<>> /\ Head(s) = " " THEN TrimLeft(Tail(s)) ELSE s

RECURSIVE TrimRight(_)
TrimRight(s) ==
  IF s # <<>> /\ s[Len(s)] = " " THEN TrimRight(SubSeq(s, 1, Len(s) - 1)) ELSE s

trim(s) == TrimRight(TrimLeft(s))

\* t occurs in s as a contiguous run of tokens
Contains(s, t) ==
  \E k \in 0..Len(s) : k + Len(t) <= Len(s) /\ SubSeq(s, k + 1, k + Len(t)) = t

UserInputs == { <<" ">>, <<"closure">>, <<" ", "scope", " ">> }
Modes == {"text", "visual"}
Tabs == {"chat", "journal"}

\* ---------------------------------------------------------- host findings
UnusedVariable ==
  [message |-> "unused variable", code |-> "6133", severity |-> "Warning",
   line |-> 4, character |-> 9]

MissingSemicolon ==
  [message |-> "missing semicolon", code |-> "1005", severity |-> "Error",
   line |-> 0, character |-> 0]

\* the finding lists the host may report for a document
DiagnosticLists == { <<>>, <<MissingSemicolon>>, <<UnusedVariable, MissingSemicolon>> }

\* document.lineAt(line).text
lineAt(doc, line) == [doc |-> doc, line |-> line]

\* the view column of the editor showing a document
EditorColumn(doc) == doc

\* --------------------------------------------------------------- listeners
OnDidDispose == "onDidDispose"
OnDidReceiveMessage == "onDidReceiveMessage"

Methods == {"_panel.reveal", "explainCurrentError", "updateDiagnostics", "dispose"}

Commands == {"codecraft.openAIMentor", "codecraft.explainError"}

InitialSurface ==
  [ tab |-> "chat", mode |-> "text", errorHidden |-> TRUE,
    state |-> [messages |-> <<>>, activeTab |-> "chat", responseMode |-> "text"] ]

Init ==
  /\ activated = FALSE
  /\ currentPanel = NoPanel
  /\ created = 0
  /\ panelDisposed = [i \in Insts |-> FALSE]
  /\ viewColumn = [i \in Insts |-> ViewColumnOne]
  /\ _disposables = [i \in Insts |-> <<>>]
  /\ listeners = [i \in Insts |-> {}]
  /\ stack = <<>>
  /\ timers = <<>>
  /\ outMsgs = [i \in Insts |-> <<>>]
  /\ outDelivered = [i \in Insts |-> 0]
  /\ inMsgs = [i \in Insts |-> <<>>]
  /\ inDelivered = [i \in Insts |-> 0]
  /\ surface = [i \in Insts |-> InitialSurface]
  /\ activeTextEditor \in {NoEditor, 1}
  /\ diagnostics = [d \in Docs |-> <<>>]
  /\ diagEvent = FALSE
  /\ notifications = <<>>
  /\ raised = FALSE
  /\ calls = [i \in Insts |-> [m \in Methods |-> 0]]
  /\ commands = [c \in Commands |-> 0]
  /\ seen = [i \in Insts |-> [read |-> FALSE, findings |-> <<>>]]
  /\ steps = 0

\* ------------------------------------------------- host panel and channels
Live(i) == i <= created /\ ~panelDisposed[i]

Idle == stack = <<>>

Frame(call, i, pc) == [call |-> call, inst |-> i, pc |-> pc]
Top == stack[Len(stack)]
Pop == SubSeq(stack, 1, Len(stack) - 1)
SetPc(pc) == [stack EXCEPT ![Len(stack)].pc = pc]

Called(i, method) == calls' = [calls EXCEPT ![i][method] = @ + 1]

\* this._panel.webview.postMessage(m): the webview getter of a disposed panel
\* throws ("Webview is disposed"); otherwise the message joins the outbound stream.
postMessage(i, m) ==
  IF panelDisposed[i]
    THEN /\ raised' = TRUE
         /\ UNCHANGED outMsgs
    ELSE /\ outMsgs' = [outMsgs EXCEPT ![i] = Append(@, m)]
         /\ UNCHANGED raised

\* this._panel.reveal(column): the panel moves to the column when one is given
PanelReveal(i, column) ==
  /\ Called(i, "_panel.reveal")
  /\ viewColumn' = [viewColumn EXCEPT ![i] = IF column # NoColumn THEN column ELSE @]

\* ------------------------------------------------------------ AIMentorPanel
\* The handlers below say what happens to outMsgs, raised, timers,
\* notifications and calls (and updateDiagnostics to seen).
reveal(i) == PanelReveal(i, NoColumn)

\* variant: the host's 0-based position passed on as it is
ErrorFinding_ZeroBased(doc, error) ==
  [ message |-> error.message,
    code |-> error.code,
    line |-> error.line,
    column |-> error.character,
    text |-> lineAt(doc, error.line) ]

ErrorFinding(doc, error) ==
  [ message |-> error.message,
    code |-> error.code,
    line |-> error.line + 1,
    column |-> error.character + 1,
    text |-> lineAt(doc, error.line) ]

\* variant: no check that the active document has a finding; reading the
\* message of diagnostics[0] === undefined is a TypeError
explainCurrentError_NoLengthCheck(i) ==
  /\ Called(i, "explainCurrentError")
  /\ IF activeTextEditor # NoEditor
       THEN IF Len(diagnostics[activeTextEditor]) > 0
              THEN postMessage(i, [command |-> "explainError",
                                   error |-> ErrorFinding(activeTextEditor,
                                                          diagnostics[activeTextEditor][1])])
              ELSE /\ raised' = TRUE
                   /\ UNCHANGED outMsgs
       ELSE UNCHANGED <<outMsgs, raised>>

\* variant: a finding of severity Error is preferred to the first finding
explainCurrentError_MostSevere(i) ==
  /\ Called(i, "explainCurrentError")
  /\ IF activeTextEditor # NoEditor /\ Len(diagnostics[activeTextEditor]) > 0
       THEN LET errors == SelectSeq(diagnostics[activeTextEditor],
                                    LAMBDA d : d.severity = "Error")
                error == IF errors # <<>> THEN errors[1]
                                          ELSE diagnostics[activeTextEditor][1]
            IN postMessage(i, [command |-> "explainError",
                               error |-> ErrorFinding(activeTextEditor, error)])
       ELSE UNCHANGED <<outMsgs, raised>>

explainCurrentError(i) ==
  /\ Called(i, "explainCurrentError")
  /\ IF activeTextEditor # NoEditor /\ Len(diagnostics[activeTextEditor]) > 0
       THEN postMessage(i, [command |-> "explainError",
                            error |-> ErrorFinding(activeTextEditor,
                                                   diagnostics[activeTextEditor][1])])
       ELSE UNCHANGED <<outMsgs, raised>>

\* updateDiagnostics reads the findings of the active editor's document
Reads(i) ==
  seen' = [seen EXCEPT ![i] = IF activeTextEditor # NoEditor
                                THEN [read |-> TRUE, findings |-> diagnostics[activeTextEditor]]
                                ELSE @]

\* variant: the findings of every document count, not only the active one's
updateDiagnostics_AnyDocument(i) ==
  /\ Called(i, "updateDiagnostics")
  /\ Reads(i)
  /\ IF activeTextEditor # NoEditor
       THEN postMessage(i, [command |-> "updateDiagnostics",
                            hasErrors |-> \E d \in Docs : Len(diagnostics[d]) > 0])
       ELSE UNCHANGED <<outMsgs, raised>>

\* variant: no check that an editor is active
updateDiagnostics_NoEditorCheck(i) ==
  /\ Called(i, "updateDiagnostics")
  /\ Reads(i)
  /\ postMessage(i, [command |-> "updateDiagnostics",
                     hasErrors |-> /\ activeTextEditor # NoEditor
                                   /\ Len(diagnostics[activeTextEditor]) > 0])

updateDiagnostics(i) ==
  /\ Called(i, "updateDiagnostics")
  /\ Reads(i)
  /\ IF activeTextEditor # NoEditor
       THEN postMessage(i, [command |-> "updateDiagnostics",
                            hasErrors |-> Len(diagnostics[activeTextEditor]) > 0])
       ELSE UNCHANGED <<outMsgs, raised>>

\* variant: a fixed reply that does not quote the user's text
ReplyText_Generic(text) ==
  <<"I understand you're asking about \"">> \o <<"\". Let me help you with that...">>

ReplyText(text) ==
  <<"I understand you're asking about \"">> \o text \o <<"\". Let me help you with that...">>

\* variant: the reply goes to whichever panel is current when the timer fires
ReplyCallback_ToCurrent(i, text) ==
  /\ IF currentPanel # NoPanel
       THEN postMessage(currentPanel,
                        [command |-> "receiveMessage",
                         message |-> [text |-> ReplyText(text), isUser |-> FALSE]])
       ELSE UNCHANGED <<outMsgs, raised>>
  /\ UNCHANGED calls

\* the callback _handleUserMessage hands to setTimeout (the message's wall-clock
\* timestamp is left out of the model)
ReplyCallback(i, text) ==
  /\ postMessage(i, [command |-> "receiveMessage",
                     message |-> [text |-> ReplyText(text), isUser |-> FALSE]])
  /\ UNCHANGED calls

\* variant: the timer of a later message fires before the ones already pending
_handleUserMessage_NewestFirst(i, text) ==
  /\ timers' = <<[kind |-> "reply", inst |-> i, text |-> text]>> \o timers
  /\ UNCHANGED <<outMsgs, raised, notifications, calls>>

_handleUserMessage(i, text) ==
  /\ timers' = Append(timers, [kind |-> "reply", inst |-> i, text |-> text])
  /\ UNCHANGED <<outMsgs, raised, notifications, calls>>

_toggleMode(i, mode) ==
  /\ notifications' = Append(notifications, <<"Switched to ", mode, " mode">>)
  /\ UNCHANGED <<outMsgs, raised, timers, calls>>

_showLearningJournal(i) ==
  /\ postMessage(i, [command |-> "showLearningJournal"])
  /\ UNCHANGED <<timers, notifications, calls>>

\* variant: the switch also serves the webview's 'explainError' command
onDidReceiveMessage_ExplainError(i, message) ==
  CASE message.command = "sendMessage" -> _handleUserMessage(i, message.text)
    [] message.command = "toggleMode" -> _toggleMode(i, message.mode)
    [] message.command = "openLearningJournal" -> _showLearningJournal(i)
    [] message.command = "explainError" ->
         /\ explainCurrentError(i)
         /\ UNCHANGED <<timers, notifications>>
    [] OTHER -> UNCHANGED <<outMsgs, raised, timers, notifications, calls>>

\* the switch of the onDidReceiveMessage handler
onDidReceiveMessage(i, message) ==
  CASE message.command = "sendMessage" -> _handleUserMessage(i, message.text)
    [] message.command = "toggleMode" -> _toggleMode(i, message.mode)
    [] message.command = "openLearningJournal" -> _showLearningJournal(i)
    [] OTHER -> UNCHANGED <<outMsgs, raised, timers, notifications, calls>>

\* variant: no look at the current panel, a new instance every time
createOrShow_AlwaysCreate ==
  LET column == IF activeTextEditor # NoEditor THEN EditorColumn(activeTextEditor)
                                               ELSE NoColumn
  IN /\ created < MaxInst
     /\ UNCHANGED calls
     /\ created' = created + 1
     /\ currentPanel' = created + 1
     /\ viewColumn' = [viewColumn EXCEPT
                         ![created + 1] = IF column # NoColumn THEN column
                                                               ELSE ViewColumnOne]
     /\ surface' = [surface EXCEPT ![created + 1] = InitialSurface]
     /\ _disposables' = [_disposables EXCEPT
                           ![created + 1] = <<OnDidDispose, OnDidReceiveMessage>>]
     /\ listeners' = [listeners EXCEPT
                        ![created + 1] = {OnDidDispose, OnDidReceiveMessage}]

\* variant: the constructor does not subscribe dispose to the panel's onDidDispose
createOrShow_NoDisposeListener ==
  LET column == IF activeTextEditor # NoEditor THEN EditorColumn(activeTextEditor)
                                               ELSE NoColumn
  IN IF currentPanel # NoPanel
       THEN /\ PanelReveal(currentPanel, column)
            /\ UNCHANGED <<currentPanel, created, _disposables, listeners, surface>>
       ELSE /\ created < MaxInst
            /\ UNCHANGED calls
            /\ created' = created + 1
            /\ currentPanel' = created + 1
            /\ viewColumn' = [viewColumn EXCEPT
                                ![created + 1] = IF column # NoColumn THEN column
                                                                      ELSE ViewColumnOne]
            /\ surface' = [surface EXCEPT ![created + 1] = InitialSurface]
            /\ _disposables' = [_disposables EXCEPT ![created + 1] = <<OnDidReceiveMessage>>]
            /\ listeners' = [listeners EXCEPT ![created + 1] = {OnDidReceiveMessage}]

\* createOrShow: reveal the current panel, or construct a new instance
\* (constructor: initial html, then the two listeners pushed on _disposables)
createOrShow ==
  LET column == IF activeTextEditor # NoEditor THEN EditorColumn(activeTextEditor)
                                               ELSE NoColumn
  IN IF currentPanel # NoPanel
       THEN /\ PanelReveal(currentPanel, column)
            /\ UNCHANGED <<currentPanel, created, _disposables, listeners, surface>>
       ELSE /\ created < MaxInst
            /\ UNCHANGED calls
            /\ created' = created + 1
            /\ currentPanel' = created + 1
            /\ viewColumn' = [viewColumn EXCEPT
                                ![created + 1] = IF column # NoColumn THEN column
                                                                      ELSE ViewColumnOne]
            /\ surface' = [surface EXCEPT ![created + 1] = InitialSurface]
            /\ _disposables' = [_disposables EXCEPT
                                  ![created + 1] = <<OnDidDispose, OnDidReceiveMessage>>]
            /\ listeners' = [listeners EXCEPT
                               ![created + 1] = {OnDidDispose, OnDidReceiveMessage}]

\* ------------------------------------------------------------------ activate
\* activate(): registers the commands and the diagnostics listener; reveals the
\* panel when one exists already.
Activate ==
  /\ ~activated
  /\ activated' = TRUE
  /\ IF currentPanel # NoPanel
       THEN reveal(currentPanel)
       ELSE UNCHANGED <<viewColumn, calls>>
  /\ UNCHANGED <<currentPanel, created, panelDisposed, _disposables, listeners,
                 stack, timers, outMsgs, outDelivered, inMsgs, inDelivered, surface,
                 activeTextEditor, diagnostics, diagEvent, notifications, raised, commands,
                 seen, steps>>

Ready == activated /\ Idle

\* the host runs a registered command
Ran(command) == commands' = [commands EXCEPT ![command] = @ + 1]

Step == steps < MaxSteps /\ steps' = steps + 1

\* command codecraft.openAIMentor
OpenAIMentor ==
  /\ Ready /\ Step
  /\ Ran("codecraft.openAIMentor")
  /\ createOrShow
  /\ UNCHANGED <<activated, seen, panelDisposed, stack, timers, outMsgs, outDelivered,
                 inMsgs, inDelivered, activeTextEditor, diagnostics, diagEvent,
                 notifications, raised>>

\* variant: the retry timer is set whether or not a panel exists
ExplainError_AlwaysRetry ==
  /\ Ready /\ Step
  /\ Ran("codecraft.explainError")
  /\ timers' = Append(timers, [kind |-> "retry"])
  /\ IF currentPanel # NoPanel
       THEN /\ explainCurrentError(currentPanel)
            /\ UNCHANGED <<currentPanel, created, viewColumn, _disposables, listeners,
                           surface>>
       ELSE /\ createOrShow
            /\ UNCHANGED <<outMsgs, raised>>
  /\ UNCHANGED <<activated, seen, panelDisposed, stack, outDelivered, inMsgs, inDelivered,
                 activeTextEditor, diagnostics, diagEvent, notifications>>

\* command codecraft.explainError
ExplainError ==
  /\ Ready /\ Step
  /\ Ran("codecraft.explainError")
  /\ IF currentPanel # NoPanel
       THEN /\ explainCurrentError(currentPanel)
            /\ UNCHANGED <<currentPanel, created, viewColumn, _disposables, listeners,
                           surface, timers>>
       ELSE /\ createOrShow
            /\ timers' = Append(timers, [kind |-> "retry"])
            /\ UNCHANGED <<outMsgs, raised>>
  /\ UNCHANGED <<activated, seen, panelDisposed, stack, outDelivered, inMsgs, inDelivered,
                 activeTextEditor, diagnostics, diagEvent, notifications>>

\* the callback codecraft.explainError leaves behind when it had to create the panel
RetryCallback ==
  IF currentPanel # NoPanel
    THEN explainCurrentError(currentPanel)
    ELSE UNCHANGED <<outMsgs, raised, calls>>

\* variant: the retry constructs a panel when none is current
TimerFire_RetryCreates ==
  /\ Ready
  /\ timers # <<>>
  /\ timers' = Tail(timers)
  /\ IF Head(timers).kind = "reply"
       THEN /\ ReplyCallback(Head(timers).inst, Head(timers).text)
            /\ UNCHANGED <<currentPanel, created, viewColumn, _disposables, listeners,
                           surface>>
       ELSE IF currentPanel # NoPanel
              THEN /\ explainCurrentError(currentPanel)
                   /\ UNCHANGED <<currentPanel, created, viewColumn, _disposables,
                                  listeners, surface>>
              ELSE /\ createOrShow
                   /\ UNCHANGED <<outMsgs, raised>>
  /\ UNCHANGED <<activated, commands, seen, panelDisposed, stack, outDelivered, inMsgs,
                 inDelivered, activeTextEditor, diagnostics, diagEvent, notifications,
                 steps>>

\* a setTimeout callback runs: the timers all wait 1000 ms, so they fire in the
\* order they were set
TimerFire ==
  /\ Ready
  /\ timers # <<>>
  /\ timers' = Tail(timers)
  /\ IF Head(timers).kind = "reply"
       THEN ReplyCallback(Head(timers).inst, Head(timers).text)
       ELSE RetryCallback
  /\ UNCHANGED <<activated, commands, seen, currentPanel, created, panelDisposed,
                 viewColumn, _disposables, listeners, stack, outDelivered, inMsgs,
                 inDelivered, surface, activeTextEditor, diagnostics, diagEvent,
                 notifications, steps>>

\* the host delivers the next inbound message to the instance's handler
ReceiveMessage(i) ==
  /\ Ready
  /\ OnDidReceiveMessage \in listeners[i]
  /\ inDelivered[i] < Len(inMsgs[i])
  /\ inDelivered' = [inDelivered EXCEPT ![i] = @ + 1]
  /\ onDidReceiveMessage(i, inMsgs[i][inDelivered[i] + 1])
  /\ UNCHANGED <<activated, commands, seen, currentPanel, created, panelDisposed,
                 viewColumn, _disposables, listeners, stack, outDelivered, inMsgs, surface,
                 activeTextEditor, diagnostics, diagEvent, steps>>

\* ------------------------------------------------------------ host: editing
\* the host's analysis replaces the findings of a document
SetDiagnostics(doc, list) ==
  /\ Ready /\ Step
  /\ diagnostics' = [diagnostics EXCEPT ![doc] = list]
  /\ diagEvent' = TRUE
  /\ UNCHANGED <<activated, commands, seen, currentPanel, created, panelDisposed,
                 viewColumn, _disposables, listeners, stack, timers, outMsgs, outDelivered,
                 inMsgs, inDelivered, surface, activeTextEditor, notifications, raised,
                 calls>>

\* variant: the listener serves the first event a panel sees and no later one
DidChangeDiagnostics_FirstEventOnly ==
  /\ Ready
  /\ diagEvent
  /\ diagEvent' = FALSE
  /\ IF currentPanel # NoPanel /\ calls[currentPanel]["updateDiagnostics"] = 0
       THEN updateDiagnostics(currentPanel)
       ELSE UNCHANGED <<outMsgs, raised, calls, seen>>
  /\ UNCHANGED <<activated, commands, currentPanel, created, panelDisposed, viewColumn,
                 _disposables, listeners, stack, timers, outDelivered, inMsgs, inDelivered,
                 surface, activeTextEditor, diagnostics, notifications, steps>>

\* vscode.languages.onDidChangeDiagnostics fires
DidChangeDiagnostics ==
  /\ Ready
  /\ diagEvent
  /\ diagEvent' = FALSE
  /\ IF currentPanel # NoPanel
       THEN updateDiagnostics(currentPanel)
       ELSE UNCHANGED <<outMsgs, raised, calls, seen>>
  /\ UNCHANGED <<activated, commands, currentPanel, created, panelDisposed, viewColumn,
                 _disposables, listeners, stack, timers, outDelivered, inMsgs, inDelivered,
                 surface, activeTextEditor, diagnostics, notifications, steps>>

\* the user activates another editor, or closes the last one
ChangeActiveEditor(e) ==
  /\ Ready /\ Step
  /\ e # activeTextEditor
  /\ activeTextEditor' = e
  /\ UNCHANGED <<activated, commands, seen, currentPanel, created, panelDisposed,
                 viewColumn, _disposables, listeners, stack, timers, outMsgs, outDelivered,
                 inMsgs, inDelivered, surface, diagnostics, diagEvent, notifications,
                 raised, calls>>

\* ----------------------------------------------------------------- disposal
\* a call of AIMentorPanel.dispose() on instance i, on top of call stack stk
CallDispose(stk, i) ==
  /\ stack' = Append(stk, Frame("dispose", i, "clear"))
  /\ Called(i, "dispose")

\* The host's WebviewPanel.dispose(): nothing when already disposed; otherwise
\* mark disposed, fire onDidDispose, then drop the webview and the emitters.
PanelDisposeEnter ==
  /\ stack # <<>> /\ Top.call = "panel.dispose" /\ Top.pc = "enter"
  /\ IF panelDisposed[Top.inst]
       THEN /\ stack' = Pop
            /\ UNCHANGED <<panelDisposed, calls>>
       ELSE /\ panelDisposed' = [panelDisposed EXCEPT ![Top.inst] = TRUE]
            /\ IF OnDidDispose \in listeners[Top.inst]
                 THEN CallDispose(SetPc("rest"), Top.inst)
                 ELSE /\ stack' = SetPc("rest")
                      /\ UNCHANGED calls
  /\ UNCHANGED <<activated, commands, seen, currentPanel, created, viewColumn, _disposables,
                 listeners, timers, outMsgs, outDelivered, inMsgs, inDelivered, surface,
                 activeTextEditor, diagnostics, diagEvent, notifications, raised, steps>>

PanelDisposeRest ==
  /\ stack # <<>> /\ Top.call = "panel.dispose" /\ Top.pc = "rest"
  /\ listeners' = [listeners EXCEPT ![Top.inst] = {}]
  /\ stack' = Pop
  /\ UNCHANGED <<activated, commands, seen, currentPanel, created, panelDisposed,
                 viewColumn, _disposables, timers, outMsgs, outDelivered, inMsgs,
                 inDelivered, surface, activeTextEditor, diagnostics, diagEvent,
                 notifications, raised, calls, steps>>

\* variant: dispose() goes on to the panel without clearing the reference
DisposeClear_KeepReference ==
  /\ stack # <<>> /\ Top.call = "dispose" /\ Top.pc = "clear"
  /\ stack' = SetPc("panel")
  /\ UNCHANGED <<activated, commands, seen, currentPanel, created, panelDisposed,
                 viewColumn, _disposables, listeners, timers, outMsgs, outDelivered, inMsgs,
                 inDelivered, surface, activeTextEditor, diagnostics, diagEvent,
                 notifications, raised, calls, steps>>

\* AIMentorPanel.dispose(), statement by statement
DisposeClear ==
  /\ stack # <<>> /\ Top.call = "dispose" /\ Top.pc = "clear"
  /\ currentPanel' = NoPanel
  /\ stack' = SetPc("panel")
  /\ UNCHANGED <<activated, commands, seen, created, panelDisposed, viewColumn,
                 _disposables, listeners, timers, outMsgs, outDelivered, inMsgs,
                 inDelivered, surface, activeTextEditor, diagnostics, diagEvent,
                 notifications, raised, calls, steps>>

DisposePanel ==
  /\ stack # <<>> /\ Top.call = "dispose" /\ Top.pc = "panel"
  /\ stack' = Append(SetPc("loop"), Frame("panel.dispose", Top.inst, "enter"))
  /\ UNCHANGED <<activated, commands, seen, currentPanel, created, panelDisposed,
                 viewColumn, _disposables, listeners, timers, outMsgs, outDelivered, inMsgs,
                 inDelivered, surface, activeTextEditor, diagnostics, diagEvent,
                 notifications, raised, calls, steps>>

\* variant: "if" where the code has "while": one listener released per call
DisposeLoop_Once ==
  /\ stack # <<>> /\ Top.call = "dispose" /\ Top.pc = "loop"
  /\ LET i == Top.inst
         n == Len(_disposables[i])
     IN /\ stack' = Pop
        /\ IF n > 0
             THEN /\ _disposables' = [_disposables EXCEPT ![i] = SubSeq(@, 1, n - 1)]
                  /\ listeners' = [listeners EXCEPT ![i] = @ \ {_disposables[i][n]}]
             ELSE UNCHANGED <<_disposables, listeners>>
  /\ UNCHANGED <<activated, commands, seen, currentPanel, created, panelDisposed,
                 viewColumn, timers, outMsgs, outDelivered, inMsgs, inDelivered, surface,
                 activeTextEditor, diagnostics, diagEvent, notifications, raised, calls,
                 steps>>

DisposeLoop ==
  /\ stack # <<>> /\ Top.call = "dispose" /\ Top.pc = "loop"
  /\ LET i == Top.inst
         n == Len(_disposables[i])
     IN IF n > 0
          THEN /\ _disposables' = [_disposables EXCEPT ![i] = SubSeq(@, 1, n - 1)]
               /\ listeners' = [listeners EXCEPT ![i] = @ \ {_disposables[i][n]}]
               /\ UNCHANGED stack
          ELSE /\ stack' = Pop
               /\ UNCHANGED <<_disposables, listeners>>
  /\ UNCHANGED <<activated, commands, seen, currentPanel, created, panelDisposed,
                 viewColumn, timers, outMsgs, outDelivered, inMsgs, inDelivered, surface,
                 activeTextEditor, diagnostics, diagEvent, notifications, raised, calls,
                 steps>>

\* the user closes the panel (or the host disposes it): the host calls panel.dispose()
ClosePanel(i) ==
  /\ Ready
  /\ Live(i)
  /\ stack' = <<Frame("panel.dispose", i, "enter")>>
  /\ UNCHANGED <<activated, commands, seen, currentPanel, created, panelDisposed,
                 viewColumn, _disposables, listeners, timers, outMsgs, outDelivered, inMsgs,
                 inDelivered, surface, activeTextEditor, diagnostics, diagEvent,
                 notifications, raised, calls, steps>>

\* dispose() called on an instance from outside the panel's own event
Dispose(i) ==
  /\ Ready /\ Step
  /\ i <= created
  /\ CallDispose(stack, i)
  /\ UNCHANGED <<activated, commands, seen, currentPanel, created, panelDisposed,
                 viewColumn, _disposables, listeners, timers, outMsgs, outDelivered, inMsgs,
                 inDelivered, surface, activeTextEditor, diagnostics, diagEvent,
                 notifications, raised>>

\* ------------------------------------------------------ the webview script
\* The handlers below say what happens to surface and inMsgs.
NumText(n) == <<"0", "1", "2", "3", "4", "5", "6", "7", "8", "9", "10", "11">>[n + 1]

\* vscode.postMessage(m)
PostInbound(i, m) == inMsgs' = [inMsgs EXCEPT ![i] = Append(@, m)]

\* variant: the newest message is put first
addMessageToUI_Prepend(s, text, isUser) ==
  [s EXCEPT !.state.messages = <<[text |-> text, isUser |-> isUser]>> \o @]

\* (the wall-clock timestamp of a ChatMessage is left out of the model)
addMessageToUI(s, text, isUser) ==
  [s EXCEPT !.state.messages = Append(@, [text |-> text, isUser |-> isUser])]

\* the send button, or Enter in the input box
sendMessage(i, input) ==
  IF trim(input) = <<>>
    THEN UNCHANGED <<surface, inMsgs>>
    ELSE /\ surface' = [surface EXCEPT ![i] = addMessageToUI(@, trim(input), TRUE)]
         /\ PostInbound(i, [command |-> "sendMessage", text |-> trim(input)])

\* the "Explain This Error" button
explainErrorBtnClick(i) ==
  /\ PostInbound(i, [command |-> "explainError"])
  /\ UNCHANGED surface

\* variant: the Controller is notified whichever tab is chosen
tabButtonClick_AlwaysNotify(i, tab) ==
  /\ surface' = [surface EXCEPT ![i].tab = tab, ![i].state.activeTab = tab]
  /\ PostInbound(i, [command |-> "openLearningJournal"])

\* a tab button
tabButtonClick(i, tab) ==
  /\ surface' = [surface EXCEPT ![i].tab = tab, ![i].state.activeTab = tab]
  /\ IF tab = "journal"
       THEN PostInbound(i, [command |-> "openLearningJournal"])
       ELSE UNCHANGED inMsgs

\* a response-mode button
toggleButtonClick(i, mode) ==
  /\ surface' = [surface EXCEPT ![i].mode = mode, ![i].state.responseMode = mode]
  /\ PostInbound(i, [command |-> "toggleMode", mode |-> mode])

ErrorText(error) ==
  <<"I noticed an error in your code: \"", error.message, "\" at line ",
    NumText(error.line), ", column ", NumText(error.column),
    ". Let me explain what's happening...">>

\* variant: showLearningJournal served by the tab button's own click handler
onMessage_ClickJournal(i, message) ==
  CASE message.command = "receiveMessage" ->
         /\ surface' = [surface EXCEPT ![i] = addMessageToUI(@, message.message.text,
                                                             message.message.isUser)]
         /\ UNCHANGED inMsgs
    [] message.command = "updateDiagnostics" ->
         /\ surface' = [surface EXCEPT ![i].errorHidden = ~message.hasErrors]
         /\ UNCHANGED inMsgs
    [] message.command = "explainError" ->
         /\ surface' = [surface EXCEPT
                          ![i] = addMessageToUI(@, ErrorText(message.error), FALSE)]
         /\ UNCHANGED inMsgs
    [] message.command = "showLearningJournal" -> tabButtonClick(i, "journal")
    [] OTHER -> UNCHANGED <<surface, inMsgs>>

\* the window 'message' listener
onMessage(i, message) ==
  CASE message.command = "receiveMessage" ->
         /\ surface' = [surface EXCEPT ![i] = addMessageToUI(@, message.message.text,
                                                             message.message.isUser)]
         /\ UNCHANGED inMsgs
    [] message.command = "updateDiagnostics" ->
         /\ surface' = [surface EXCEPT ![i].errorHidden = ~message.hasErrors]
         /\ UNCHANGED inMsgs
    [] message.command = "explainError" ->
         /\ surface' = [surface EXCEPT
                          ![i] = addMessageToUI(@, ErrorText(message.error), FALSE)]
         /\ UNCHANGED inMsgs
    [] message.command = "showLearningJournal" ->
         /\ surface' = [surface EXCEPT ![i].tab = "journal"]
         /\ UNCHANGED inMsgs
    [] OTHER -> UNCHANGED <<surface, inMsgs>>

\* what a user action or a delivery in the webview leaves alone
SurfaceFrame ==
  UNCHANGED <<activated, commands, seen, currentPanel, created, panelDisposed, viewColumn,
              _disposables, listeners, stack, timers, outMsgs, inDelivered,
              activeTextEditor, diagnostics, diagEvent, notifications, raised, calls>>

UserSend(i, input) ==
  /\ Idle /\ Step /\ Live(i)
  /\ sendMessage(i, input)
  /\ SurfaceFrame /\ UNCHANGED outDelivered

\* the button is shown while the error explainer is not hidden
UserExplainError(i) ==
  /\ Idle /\ Step /\ Live(i)
  /\ ~surface[i].errorHidden
  /\ explainErrorBtnClick(i)
  /\ SurfaceFrame /\ UNCHANGED outDelivered

UserTab(i, tab) ==
  /\ Idle /\ Step /\ Live(i)
  /\ tabButtonClick(i, tab)
  /\ SurfaceFrame /\ UNCHANGED outDelivered

UserToggle(i, mode) ==
  /\ Idle /\ Step /\ Live(i)
  /\ toggleButtonClick(i, mode)
  /\ SurfaceFrame /\ UNCHANGED outDelivered

\* the host delivers the next outbound message to the webview
SurfaceReceive(i) ==
  /\ Idle /\ Live(i)
  /\ outDelivered[i] < Len(outMsgs[i])
  /\ outDelivered' = [outDelivered EXCEPT ![i] = @ + 1]
  /\ onMessage(i, outMsgs[i][outDelivered[i] + 1])
  /\ SurfaceFrame /\ UNCHANGED steps

\* ------------------------------------------------------------ specification
DisposeStep ==
  \/ PanelDisposeEnter
  \/ PanelDisposeRest
  \/ DisposeClear
  \/ DisposePanel
  \/ DisposeLoop

Next ==
  \/ Activate
  \/ OpenAIMentor
  \/ ExplainError
  \/ TimerFire
  \/ \E i \in Insts : ReceiveMessage(i)
  \/ \E doc \in Docs, list \in DiagnosticLists : SetDiagnostics(doc, list)
  \/ DidChangeDiagnostics
  \/ \E e \in {NoEditor} \cup Docs : ChangeActiveEditor(e)
  \/ \E i \in Insts : ClosePanel(i)
  \/ PanelDisposeEnter
  \/ PanelDisposeRest
  \/ DisposeClear
  \/ DisposePanel
  \/ DisposeLoop
  \/ \E i \in Insts, input \in UserInputs : UserSend(i, input)
  \/ \E i \in Insts : UserExplainError(i)
  \/ \E i \in Insts, tab \in Tabs : UserTab(i, tab)
  \/ \E i \in Insts, mode \in Modes : UserToggle(i, mode)
  \/ \E i \in Insts : SurfaceReceive(i)

Spec == Init /\ [][Next]_vars

\* the same program with dispose() also called directly, as a test harness would
NextDispose == Next \/ \E i \in Insts : Dispose(i)

SpecDispose == Init /\ [][NextDispose]_vars

\* the event loop runs every due timer, and a call chain runs to its end
FairSpec == Spec /\ WF_vars(TimerFire) /\ WF_vars(DisposeStep)

\* =================================================================== claims
LiveInsts == {i \in Insts : Live(i)}

\* the inbound messages the Controller of instance i has dispatched so far
Dispatched(i) == SubSeq(inMsgs[i], 1, inDelivered[i])

OfCommand(msgs, c) == SelectSeq(msgs, LAMBDA m : m.command = c)

PendingReplies(i) == SelectSeq(timers, LAMBDA t : t.kind = "reply" /\ t.inst = i)

Posted(i) == Len(outMsgs'[i]) = Len(outMsgs[i]) + 1
LastPosted(i) == outMsgs'[i][Len(outMsgs'[i])]

Invoked(i, method) == calls'[i][method] # calls[i][method]

\* ----------------------------------------------------------------------- C1
SingletonInv ==
  /\ Cardinality(LiveInsts) <= 1
  /\ Idle /\ currentPanel # NoPanel => LiveInsts = {currentPanel}

\* a step in which createOrShow ran: it constructed an instance or revealed one
CreateOrShowRan == created' # created \/ \E i \in Insts : Invoked(i, "_panel.reveal")

\* C1: at most one live Surface exists in every state; after a createOrShow
\* call exactly one exists and it is the current panel; a createOrShow call
\* made while a panel is current constructs nothing and reveals that panel;
\* and currentPanel stops naming an instance only inside that instance's dispose.
C1_Singleton ==
  /\ []SingletonInv
  /\ [][CreateOrShowRan =>
          /\ currentPanel' # NoPanel
          /\ LiveInsts' = {currentPanel'}
          /\ currentPanel # NoPanel =>
               /\ currentPanel' = currentPanel
               /\ created' = created
               /\ Invoked(currentPanel, "_panel.reveal")]_vars
  /\ [][currentPanel # NoPanel /\ currentPanel' # currentPanel =>
          /\ currentPanel' = NoPanel
          /\ stack # <<>> /\ Top.call = "dispose" /\ Top.inst = currentPanel]_vars

\* createOrShow has run three times on one instance: it was constructed, then revealed twice
C1_Witness ==
  \E i \in Insts :
    currentPanel = i /\ calls[i]["_panel.reveal"] >= 2 /\ LiveInsts = {i} /\ created = 1

\* ----------------------------------------------------------------------- C2
\* C2: whenever a call chain that ran dispose on an instance has returned, and
\* however many times dispose has run on it (re-entrant runs included), the
\* instance is not the current panel, its listener list is empty, none of its
\* handlers is subscribed and its panel is disposed; at the return of the chain
\* currentPanel is none; and no step of a disposal raises.
C2_IdempotentDispose ==
  /\ [](\A i \in Insts :
          Idle /\ calls[i]["dispose"] >= 1 =>
            /\ currentPanel # i
            /\ _disposables[i] = <<>>
            /\ listeners[i] = {}
            /\ panelDisposed[i])
  /\ [][stack # <<>> /\ stack' = <<>> /\ (\E i \in Insts : calls[i]["dispose"] >= 1 /\ stack[1].inst = i)
          => currentPanel' = NoPanel]_vars
  /\ [][stack # <<>> => raised' = raised]_vars

\* dispose has run three times on one instance: a direct call, the re-entrant
\* call made by the panel's onDidDispose event, and a later direct call
C2_Witness ==
  \E i \in Insts : Idle /\ calls[i]["dispose"] >= 3 /\ currentPanel = NoPanel /\ ~raised

\* ----------------------------------------------------------------------- C3
EchoInv ==
  \A i \in Insts :
    LET S == OfCommand(Dispatched(i), "sendMessage")
        R == OfCommand(outMsgs[i], "receiveMessage")
    IN /\ Len(R) <= Len(S)
       /\ \A k \in 1..Len(R) :
            /\ Contains(R[k].message.text, S[k].text)
            /\ R[k].message.isUser = FALSE
       /\ ~panelDisposed[i] => Len(R) + Len(PendingReplies(i)) = Len(S)

\* C3: the receiveMessage messages sent to an instance answer, one for one and
\* in order, the sendMessage messages it dispatched: the k-th quotes the text of
\* the k-th and has isUser false, and while the panel is not disposed every
\* dispatched sendMessage has been answered or has its timer pending; and the
\* n-th dispatched sendMessage is eventually answered unless the panel is disposed.
C3_MessageEcho ==
  /\ []EchoInv
  /\ \A i \in Insts, n \in 1..MaxSteps :
       (Len(OfCommand(Dispatched(i), "sendMessage")) >= n)
         ~> (Len(OfCommand(outMsgs[i], "receiveMessage")) >= n \/ panelDisposed[i])

\* a live panel has been sent the reply to "scope", typed with spaces around it
C3_Witness ==
  \E i \in Insts :
    /\ Live(i)
    /\ OfCommand(outMsgs[i], "receiveMessage") # <<>>
    /\ Contains(OfCommand(outMsgs[i], "receiveMessage")[1].message.text, <<"scope">>)
    /\ PendingReplies(i) = <<>>

\* ----------------------------------------------------------------------- C4
\* C4: no send the Controller attempts raises, also after the panel is disposed
C4_SilentAfterDispose == ~raised

\* ----------------------------------------------------------------------- C5
\* C5: the Controller has sent exactly one showLearningJournal per
\* openLearningJournal it dispatched; the Surface posts nothing while it
\* handles an outbound message; a click on the journal tab posts one inbound
\* message and no outbound one; and the inbound messages never outnumber the
\* user's actions, so no message feeds on itself.
C5_JournalRoundTrip ==
  /\ [](\A i \in Insts :
          /\ Len(OfCommand(outMsgs[i], "showLearningJournal"))
               = Len(OfCommand(Dispatched(i), "openLearningJournal"))
          /\ Len(inMsgs[i]) <= steps)
  /\ [][\A i \in Insts : outDelivered'[i] # outDelivered[i] => inMsgs' = inMsgs]_vars
  /\ [][\A i \in Insts :
          Len(OfCommand(inMsgs'[i], "openLearningJournal"))
            # Len(OfCommand(inMsgs[i], "openLearningJournal"))
          => /\ Len(inMsgs'[i]) = Len(inMsgs[i]) + 1
             /\ steps' = steps + 1
             /\ outMsgs' = outMsgs]_vars

\* one click on the journal tab, answered and handled, and both streams are at rest
C5_Witness ==
  \E i \in Insts :
    /\ Live(i)
    /\ steps = 2
    /\ inMsgs[i] = <<[command |-> "openLearningJournal"]>>
    /\ outMsgs[i] = <<[command |-> "showLearningJournal"]>>
    /\ inDelivered[i] = 1 /\ outDelivered[i] = 1
    /\ surface[i].tab = "journal"

\* ----------------------------------------------------------------------- C6
\* C6: every updateDiagnostics message carries hasErrors = (the active document
\* has at least one finding when the message is built)
C6_DiagnosticsVisibility ==
  [][\A i \in Insts :
       Posted(i) /\ LastPosted(i).command = "updateDiagnostics" =>
         /\ activeTextEditor # NoEditor
         /\ LastPosted(i).hasErrors = (Len(diagnostics[activeTextEditor]) > 0)]_vars

\* findings appeared and went away again: hasErrors true, then hasErrors false
C6_Witness ==
  \E i \in Insts :
    /\ Len(outMsgs[i]) = 2
    /\ outMsgs[i][1] = [command |-> "updateDiagnostics", hasErrors |-> TRUE]
    /\ outMsgs[i][2] = [command |-> "updateDiagnostics", hasErrors |-> FALSE]

\* ----------------------------------------------------------------------- C7
\* C7: every explainError message carries the first finding of the active
\* document with line = its 0-based line + 1 and column = its 0-based character + 1
C7_DiagnosticsTranslation ==
  [][\A i \in Insts :
       Posted(i) /\ LastPosted(i).command = "explainError" =>
         /\ activeTextEditor # NoEditor /\ diagnostics[activeTextEditor] # <<>>
         /\ LastPosted(i).error.line = diagnostics[activeTextEditor][1].line + 1
         /\ LastPosted(i).error.column = diagnostics[activeTextEditor][1].character + 1]_vars

\* the finding at 0-based line 4, character 9 was sent as line 5, column 10
C7_Witness ==
  \E i \in Insts :
    /\ outMsgs[i] # <<>>
    /\ outMsgs[i][1].command = "explainError"
    /\ outMsgs[i][1].error.line = 5 /\ outMsgs[i][1].error.column = 10
    /\ activeTextEditor # NoEditor /\ diagnostics[activeTextEditor] # <<>>
    /\ diagnostics[activeTextEditor][1].line = 4
    /\ diagnostics[activeTextEditor][1].character = 9

\* ----------------------------------------------------------------------- C8
\* C8: a run of explainCurrentError while the active document has no finding
\* posts nothing, raises nothing and changes nothing the Controller holds
C8_NoFindingsNoOp ==
  [][\A i \in Insts :
       /\ Invoked(i, "explainCurrentError")
       /\ activeTextEditor # NoEditor
       /\ diagnostics[activeTextEditor] = <<>>
       => /\ outMsgs' = outMsgs
          /\ raised' = raised
          /\ UNCHANGED <<currentPanel, created, panelDisposed, _disposables, listeners,
                         notifications, viewColumn>>]_vars

\* the retry of an explain-error command ran with an editor open and no finding at all
C8_Witness ==
  /\ steps = 1
  /\ \E i \in Insts : calls[i]["explainCurrentError"] = 1
  /\ activeTextEditor # NoEditor
  /\ \A d \in Docs : diagnostics[d] = <<>>
  /\ \A i \in Insts : outMsgs[i] = <<>>
  /\ ~raised

\* ----------------------------------------------------------------------- C9
\* C9: a run of explainCurrentError or of updateDiagnostics while no editor is
\* active posts nothing and raises nothing
C9_NoEditorNoOp ==
  [][\A i \in Insts :
       /\ Invoked(i, "explainCurrentError") \/ Invoked(i, "updateDiagnostics")
       /\ activeTextEditor = NoEditor
       => /\ outMsgs' = outMsgs
          /\ raised' = raised]_vars

\* both methods have run with no editor active, while a document had findings
C9_Witness ==
  /\ activeTextEditor = NoEditor
  /\ steps = 2
  /\ \E d \in Docs : diagnostics[d] # <<>>
  /\ \E i \in Insts : calls[i]["explainCurrentError"] = 1 /\ calls[i]["updateDiagnostics"] = 1
  /\ \A i \in Insts : outMsgs[i] = <<>>
  /\ ~raised

\* ---------------------------------------------------------------------- C10
KnownCommands == {"sendMessage", "toggleMode", "openLearningJournal"}

\* C10: the dispatch of an inbound message whose command is none of
\* sendMessage, toggleMode, openLearningJournal posts nothing, notifies nobody,
\* sets no timer, raises nothing, calls no method and changes nothing the
\* Controller holds
C10_UnknownIgnored ==
  [][\A i \in Insts :
       /\ inDelivered'[i] = inDelivered[i] + 1
       /\ inMsgs[i][inDelivered[i] + 1].command \notin KnownCommands
       => UNCHANGED <<outMsgs, notifications, timers, raised, calls, currentPanel, created,
                      panelDisposed, _disposables, listeners, viewColumn>>]_vars

\* the 'explainError' message of the "Explain This Error" button has been dispatched
C10_Witness ==
  \E i \in Insts :
    /\ inDelivered[i] >= 1
    /\ inMsgs[i][inDelivered[i]].command = "explainError"
    /\ OfCommand(outMsgs[i], "explainError") = <<>>

\* ---------------------------------------------------------------------- C11
RECURSIVE SumOf(_, _)
SumOf(f, S) ==
  IF S = {} THEN 0
  ELSE LET x == CHOOSE y \in S : TRUE IN f[x] + SumOf(f, S \ {x})

\* explainError messages sent so far, over all instances
ExplainErrorSent == SumOf([i \in Insts |-> Len(OfCommand(outMsgs[i], "explainError"))], Insts)

\* runs of explainCurrentError so far, over all instances
ExplainCurrentErrorRuns == SumOf([i \in Insts |-> calls[i]["explainCurrentError"]], Insts)

PendingRetries == SelectSeq(timers, LAMBDA t : t.kind = "retry")

\* a step in which the retry timer of an explain-error command fires
RetryFires == timers # <<>> /\ Head(timers).kind = "retry" /\ timers' = Tail(timers)

\* C11: an explain-error command run while a panel exists invokes
\* explainCurrentError once on that panel in the same step and sets no timer;
\* run while none exists it constructs the panel in the same step, invokes
\* nothing yet and sets one retry timer; when that timer fires
\* explainCurrentError is invoked once on the panel current at that moment, or
\* nothing at all happens when there is none; no such step raises; and the
\* explainError messages sent (as the invocations, done or still pending)
\* never outnumber the explain-error commands run.
C11_ExplainErrorEntry ==
  /\ [][commands'["codecraft.explainError"] # commands["codecraft.explainError"] =>
          /\ raised' = raised
          /\ IF currentPanel # NoPanel
               THEN /\ calls' = [calls EXCEPT ![currentPanel]["explainCurrentError"] = @ + 1]
                    /\ timers' = timers
                    /\ UNCHANGED <<currentPanel, created>>
               ELSE /\ created' = created + 1
                    /\ currentPanel' = created' /\ ~panelDisposed'[currentPanel']
                    /\ timers' = Append(timers, [kind |-> "retry"])
                    /\ UNCHANGED <<calls, outMsgs>>]_vars
  /\ [][RetryFires =>
          /\ raised' = raised
          /\ UNCHANGED <<currentPanel, created>>
          /\ IF currentPanel # NoPanel
               THEN calls' = [calls EXCEPT ![currentPanel]["explainCurrentError"] = @ + 1]
               ELSE UNCHANGED <<calls, outMsgs>>]_vars
  /\ [](/\ ExplainErrorSent <= ExplainCurrentErrorRuns
        /\ ExplainCurrentErrorRuns + Len(PendingRetries) <= commands["codecraft.explainError"])

\* one explain-error command made the first panel; that panel was closed and a
\* second one opened before the timer fired, and the retry explained the
\* finding on the second panel
C11_Witness ==
  /\ commands["codecraft.explainError"] = 1
  /\ created = 2 /\ currentPanel = 2
  /\ timers = <<>>
  /\ calls[1]["explainCurrentError"] = 0 /\ calls[2]["explainCurrentError"] = 1
  /\ Len(OfCommand(outMsgs[2], "explainError")) = 1
  /\ outMsgs[1] = <<>>

\* ---------------------------------------------------------------------- C12
\* a run of dispose on instance i is on the call stack
InDispose(i) == \E k \in 1..Len(stack) : stack[k].call = "dispose" /\ stack[k].inst = i

\* a run of dispose on instance i has passed its first statement
PastClear(i) ==
  \E k \in 1..Len(stack) :
    stack[k].call = "dispose" /\ stack[k].inst = i /\ stack[k].pc # "clear"

Registered == {OnDidDispose, OnDidReceiveMessage}

\* C12: a run of dispose that has passed its first statement finds
\* currentPanel cleared; when the panel is disposed by a run of dispose, and
\* when a listener is released or taken off _disposables, currentPanel does not
\* name the instance, before or after the step; and in no state does
\* currentPanel name an instance that has lost a listener.
C12_DisposalOrder ==
  /\ [](\A i \in Insts :
          /\ PastClear(i) => currentPanel = NoPanel
          /\ i <= created /\ (listeners[i] # Registered \/ Len(_disposables[i]) < 2)
               => currentPanel # i)
  /\ [][\A i \in Insts :
          \/ InDispose(i) /\ panelDisposed'[i] /\ ~panelDisposed[i]
          \/ i <= created /\ listeners'[i] # listeners[i]
          \/ i <= created /\ _disposables'[i] # _disposables[i]
          => currentPanel # i /\ currentPanel' # i]_vars

\* inside dispose, after the reference was cleared and the panel disposed, the
\* loop has released the message listener and still holds the disposal listener
C12_Witness ==
  \E i \in Insts :
    /\ stack # <<>> /\ Top = Frame("dispose", i, "loop")
    /\ currentPanel = NoPanel
    /\ panelDisposed[i]
    /\ _disposables[i] = <<OnDidDispose>>
    /\ listeners[i] = {OnDidDispose}

\* ---------------------------------------------------------------------- C13
\* C13: the step in which the host disposes the panel of an instance (the
\* user closed it) also enters dispose on that instance, within the same call
\* chain; once the chain has returned the instance has run dispose, has
\* nothing left on _disposables and none of its handlers is subscribed; and
\* an inbound message is dispatched only by an instance whose panel is not
\* disposed.
C13_ReleaseOnDestruction ==
  /\ [][\A i \in Insts :
          panelDisposed'[i] /\ ~panelDisposed[i] /\ ~InDispose(i) =>
            /\ Invoked(i, "dispose")
            /\ stack' # <<>> /\ stack'[Len(stack')] = Frame("dispose", i, "clear")]_vars
  /\ [](\A i \in Insts :
          Idle /\ panelDisposed[i] =>
            /\ calls[i]["dispose"] >= 1
            /\ _disposables[i] = <<>>
            /\ listeners[i] = {})
  /\ [][\A i \in Insts :
          inDelivered'[i] # inDelivered[i] => ~panelDisposed[i] /\ ~panelDisposed'[i]]_vars

\* the user closed a panel that had posted a message the Controller had not
\* dispatched yet: dispose has run and returned, and the message stays undispatched
C13_Witness ==
  \E i \in Insts :
    /\ Idle /\ panelDisposed[i]
    /\ calls[i]["dispose"] = 1
    /\ listeners[i] = {} /\ _disposables[i] = <<>>
    /\ inDelivered[i] < Len(inMsgs[i])

\* ---------------------------------------------------------------------- C14
\* C14: currentPanel changes in two kinds of step only: a command's
\* createOrShow that finds no panel and makes the instance it constructs
\* current, and the first statement of dispose, which sets it to none; a step
\* that invokes reveal, explainCurrentError or updateDiagnostics, dispatches an
\* inbound message or fires a timer (reply or retry) leaves it as it is.
C14_CurrentPanelFrame ==
  /\ [][currentPanel' # currentPanel =>
          \/ /\ currentPanel = NoPanel
             /\ commands' # commands
             /\ created' = created + 1
             /\ currentPanel' = created'
          \/ /\ currentPanel' = NoPanel
             /\ stack # <<>> /\ Top.call = "dispose" /\ Top.pc = "clear"]_vars
  /\ [][\/ \E i \in Insts : \/ Invoked(i, "_panel.reveal")
                             \/ Invoked(i, "explainCurrentError")
                             \/ Invoked(i, "updateDiagnostics")
                             \/ inDelivered'[i] # inDelivered[i]
        \/ Len(timers') < Len(timers)
        => currentPanel' = currentPanel]_vars

\* on the one panel ever made: an inbound message was dispatched, both timers
\* (retry and reply) fired, explainCurrentError and updateDiagnostics ran, and
\* it is still the current panel
C14_Witness ==
  /\ created = 1 /\ currentPanel = 1
  /\ inDelivered[1] = 1
  /\ timers = <<>>
  /\ calls[1]["explainCurrentError"] = 1
  /\ calls[1]["updateDiagnostics"] = 1
  /\ OfCommand(outMsgs[1], "receiveMessage") # <<>>

\* ---------------------------------------------------------------------- C15
\* a step in which the Surface of instance i handles an outbound message
Delivers(i) == outDelivered'[i] = outDelivered[i] + 1
Delivered(i) == outMsgs[i][outDelivered[i] + 1]

\* C15: the displayed tab of a new Surface is chat; it changes only when the
\* Surface handles showLearningJournal (to journal, posting nothing) or when a
\* user event that is no delivery selects a tab, which posts one
\* openLearningJournal when the tab chosen is journal and nothing when it is
\* chat, and touches neither the outbound stream nor the Controller; handling
\* receiveMessage, updateDiagnostics or explainError leaves the tab as it is.
C15_TabStateMachine ==
  /\ [](\A i \in Insts : i > created => surface[i].tab = "chat")
  /\ [][created' # created => surface'[created'].tab = "chat"]_vars
  /\ [][\A i \in Insts :
          i <= created /\ surface'[i].tab # surface[i].tab =>
            \/ /\ Delivers(i) /\ Delivered(i).command = "showLearningJournal"
               /\ surface'[i].tab = "journal"
            \/ /\ outDelivered' = outDelivered /\ steps' = steps + 1
               /\ surface'[i].state.activeTab = surface'[i].tab
               /\ inMsgs'[i] = IF surface'[i].tab = "journal"
                                 THEN Append(inMsgs[i], [command |-> "openLearningJournal"])
                                 ELSE inMsgs[i]
               /\ UNCHANGED <<outMsgs, commands, calls, timers, currentPanel, diagnostics,
                              activeTextEditor>>]_vars
  /\ [][\A i \in Insts :
          Delivers(i) =>
            /\ inMsgs' = inMsgs
            /\ surface'[i].tab = IF Delivered(i).command = "showLearningJournal"
                                   THEN "journal" ELSE surface[i].tab]_vars

\* the user chose journal, then chat, and then the Surface handled the
\* showLearningJournal that answers the first choice: the tab shown is journal
\* and the only inbound message is the one of the first choice
C15_Witness ==
  \E i \in Insts :
    /\ Live(i)
    /\ steps = 3
    /\ inMsgs[i] = <<[command |-> "openLearningJournal"]>>
    /\ outMsgs[i] = <<[command |-> "showLearningJournal"]>>
    /\ outDelivered[i] = 1
    /\ surface[i].tab = "journal"
    /\ surface[i].state.activeTab = "chat"

\* ---------------------------------------------------------------------- C16
\* a step in which the host fires its diagnostics-change event
DiagnosticsEventFires == diagEvent /\ ~diagEvent'

LastOf(msgs) == msgs[Len(msgs)]

\* C16: a change of the findings of any document makes the host fire its
\* diagnostics-change event; when the event fires while a panel exists,
\* updateDiagnostics is invoked once on that panel, and on nothing when none
\* exists; an invocation changes nothing the Controller holds and raises
\* nothing; and an invocation that reads the same findings of the active
\* document as the invocation before it on the same instance sends an
\* updateDiagnostics message with the same hasErrors as the one before.
C16_UpdateIdempotent ==
  /\ [][diagnostics' # diagnostics => diagEvent']_vars
  /\ [][DiagnosticsEventFires =>
          IF currentPanel # NoPanel
            THEN calls' = [calls EXCEPT ![currentPanel]["updateDiagnostics"] = @ + 1]
            ELSE UNCHANGED <<calls, outMsgs>>]_vars
  /\ [][\A i \in Insts :
          Invoked(i, "updateDiagnostics") =>
            /\ UNCHANGED <<currentPanel, created, panelDisposed, viewColumn, _disposables,
                           listeners, timers, notifications, raised>>
            /\ activeTextEditor # NoEditor /\ seen[i].read
               /\ seen[i].findings = diagnostics[activeTextEditor]
               => /\ Posted(i)
                  /\ LastPosted(i).command = "updateDiagnostics"
                  /\ LastPosted(i).hasErrors
                       = LastOf(OfCommand(outMsgs[i], "updateDiagnostics")).hasErrors]_vars

\* findings were reported for the active document and then for another one:
\* updateDiagnostics ran twice on the panel, the second time with the active
\* document's findings as they were, and sent hasErrors true both times
C16_Witness ==
  \E i \in Insts :
    /\ calls[i]["updateDiagnostics"] = 2
    /\ ~diagEvent
    /\ activeTextEditor # NoEditor
    /\ seen[i] = [read |-> TRUE, findings |-> diagnostics[activeTextEditor]]
    /\ \E d \in Docs : d # activeTextEditor /\ diagnostics[d] # <<>>
    /\ outMsgs[i] = << [command |-> "updateDiagnostics", hasErrors |-> TRUE],
                       [command |-> "updateDiagnostics", hasErrors |-> TRUE] >>

\* ---------------------------------------------------------------------- C17
\* C17: a run of explainCurrentError on instance i while the active document
\* has findings appends to the outbound stream of i exactly one message, an
\* explainError that carries the message, the code and the position (1-based)
\* of the first finding in the host's list, whatever the severities are, and
\* sends nothing to any other instance.
C17_FirstFinding ==
  [][\A i \in Insts :
       /\ Invoked(i, "explainCurrentError")
       /\ activeTextEditor # NoEditor
       /\ diagnostics[activeTextEditor] # <<>>
       => LET first == Head(diagnostics[activeTextEditor])
          IN /\ Posted(i)
             /\ SubSeq(outMsgs'[i], 1, Len(outMsgs[i])) = outMsgs[i]
             /\ LastPosted(i).command = "explainError"
             /\ LastPosted(i).error.message = first.message
             /\ LastPosted(i).error.code = first.code
             /\ LastPosted(i).error.line = first.line + 1
             /\ LastPosted(i).error.column = first.character + 1
             /\ \A j \in Insts \ {i} : outMsgs'[j] = outMsgs[j]]_vars

\* the active document has a warning followed by an error, and the one
\* explainError message sent is about the warning
C17_Witness ==
  \E i \in Insts :
    /\ calls[i]["explainCurrentError"] = 1
    /\ activeTextEditor # NoEditor
    /\ diagnostics[activeTextEditor] = <<UnusedVariable, MissingSemicolon>>
    /\ Len(outMsgs[i]) = 1
    /\ outMsgs[i][1].command = "explainError"
    /\ outMsgs[i][1].error.code = UnusedVariable.code
    /\ outMsgs[i][1].error.message = UnusedVariable.message

\* ---------------------------------------------------------------------- C18
ChatLog(i) == surface[i].state.messages

\* a step in which the Surface of instance i posts the user's text
Sends(i) ==
  /\ Len(inMsgs'[i]) = Len(inMsgs[i]) + 1
  /\ inMsgs'[i][Len(inMsgs'[i])].command = "sendMessage"

\* C18: every step leaves the chat log of a Surface as it is or appends one
\* entry at its end; a user send (the step that posts sendMessage) appends the
\* text sent with isUser true, the handling of receiveMessage appends the
\* message received, the handling of explainError appends the explanation with
\* isUser false; and the log changes in no other step.
C18_ChatLogAppendOnly ==
  [][\A i \in Insts :
       LET old == ChatLog(i)
           new == ChatLog(i)'
       IN /\ \/ new = old
             \/ Len(new) = Len(old) + 1 /\ SubSeq(new, 1, Len(old)) = old
          /\ Sends(i) =>
               new = Append(old, [text |-> inMsgs'[i][Len(inMsgs'[i])].text,
                                  isUser |-> TRUE])
          /\ Delivers(i) /\ Delivered(i).command = "receiveMessage" =>
               new = Append(old, [text |-> Delivered(i).message.text,
                                  isUser |-> Delivered(i).message.isUser])
          /\ Delivers(i) /\ Delivered(i).command = "explainError" =>
               new = Append(old, [text |-> ErrorText(Delivered(i).error),
                                  isUser |-> FALSE])
          /\ new # old =>
               \/ Sends(i)
               \/ Delivers(i) /\ Delivered(i).command \in {"receiveMessage", "explainError"}]_vars

\* a log of three entries in the order they came: the user's text, the
\* explanation of a finding, the reply to the user's text
C18_Witness ==
  \E i \in Insts :
    /\ Len(ChatLog(i)) = 3
    /\ ChatLog(i)[1] = [text |-> <<"scope">>, isUser |-> TRUE]
    /\ ChatLog(i)[2].text[1] = "I noticed an error in your code: \""
    /\ ~ChatLog(i)[2].isUser
    /\ Contains(ChatLog(i)[3].text, <<"scope">>)
    /\ ~ChatLog(i)[3].isUser

\* ---------------------------------------------------------------------- C19
\* nothing is on its way to the Surface of instance i: every outbound message
\* is handled, no timer is pending and no diagnostics-change event is waiting
AtRest(i) ==
  /\ Idle
  /\ outDelivered[i] = Len(outMsgs[i])
  /\ timers = <<>>
  /\ ~diagEvent

\* C19: whenever a panel exists and nothing is on its way to its Surface, the
\* "Explain This Error" affordance is shown exactly when an editor is active
\* and its document has at least one finding
C19_AffordanceConsistency ==
  \A i \in Insts :
    currentPanel = i /\ AtRest(i) =>
      (~surface[i].errorHidden
         <=> activeTextEditor # NoEditor /\ diagnostics[activeTextEditor] # <<>>)

\* ---------------------------------------------------------------------- C20
\* a step in which the reply timer at the head of the queue fires
ReplyFires == timers # <<>> /\ Head(timers).kind = "reply" /\ timers' = Tail(timers)

\* C20: when the reply timer of instance A fires, the reply to the text A
\* dispatched is appended to the outbound stream of A, or to none when the
\* panel of A is disposed, and the stream of every other instance stays as it
\* is; and an instance has never been sent, nor has pending, more replies than
\* it dispatched sendMessage messages itself.
C20_RepliesStayWithInstance ==
  /\ [][ReplyFires =>
          LET A == Head(timers).inst
              reply == [command |-> "receiveMessage",
                        message |-> [text |-> ReplyText(Head(timers).text),
                                     isUser |-> FALSE]]
          IN /\ \A B \in Insts \ {A} : outMsgs'[B] = outMsgs[B]
             /\ outMsgs'[A] = IF panelDisposed[A] THEN outMsgs[A]
                                                  ELSE Append(outMsgs[A], reply)]_vars
  /\ [](\A i \in Insts :
          Len(OfCommand(outMsgs[i], "receiveMessage")) + Len(PendingReplies(i))
            <= Len(OfCommand(Dispatched(i), "sendMessage")))

\* the first panel dispatched a sendMessage and was closed, a second panel was
\* opened, and then the reply timer fired: neither Surface was sent the reply
C20_Witness ==
  /\ created = 2 /\ currentPanel = 2 /\ Idle
  /\ panelDisposed[1]
  /\ Len(OfCommand(Dispatched(1), "sendMessage")) = 1
  /\ timers = <<>>
  /\ outMsgs[1] = <<>>
  /\ outMsgs[2] = <<>>

\* ---------------------------------------------------------------------- C21
\* the texts of the sendMessage messages instance i has dispatched, in order
AskedTexts(i) ==
  LET S == OfCommand(Dispatched(i), "sendMessage")
  IN [k \in 1..Len(S) |-> S[k].text]

\* the texts of the receiveMessage messages sent to instance i, in order
RepliedTexts(i) ==
  LET R == OfCommand(outMsgs[i], "receiveMessage")
  IN [k \in 1..Len(R) |-> R[k].message.text]

\* the texts the pending reply timers of instance i will answer, in firing order
PendingTexts(i) ==
  LET P == PendingReplies(i)
  IN [k \in 1..Len(P) |-> P[k].text]

\* C21: while the panel of an instance is not disposed, the replies sent to it
\* followed by the replies still pending answer, one for one and in the same
\* order, the sendMessage messages it has dispatched: the k-th reply sent is
\* the reply to the k-th text, and the pending timers hold the remaining
\* texts in the order they were dispatched, none missing and none twice.
C21_PendingRepliesInOrder ==
  \A i \in Insts :
    ~panelDisposed[i] =>
      LET asked == AskedTexts(i)
          replied == RepliedTexts(i)
          pending == PendingTexts(i)
      IN /\ Len(replied) + Len(pending) = Len(asked)
         /\ \A k \in 1..Len(replied) : replied[k] = ReplyText(asked[k])
         /\ \A k \in 1..Len(pending) : pending[k] = asked[Len(replied) + k]

\* two different texts have been dispatched by a live panel and neither has
\* been answered yet: both reply timers are pending at once, in the order of
\* the texts
C21_Witness ==
  \E i \in Insts :
    /\ Live(i)
    /\ Len(AskedTexts(i)) = 2
    /\ AskedTexts(i)[1] # AskedTexts(i)[2]
    /\ RepliedTexts(i) = <<>>
    /\ PendingTexts(i) = AskedTexts(i)
    /\ timers = PendingReplies(i)

\* ---------------------------------------------------------------------- C22
\* C22: in every state the activeTab of the state a Surface has stored is the
\* tab it displays
C22_PersistedTabIsDisplayed ==
  \A i \in Insts : i <= created => surface[i].state.activeTab = surface[i].tab

\* ---------------------------------------------------------------------- C23
\* the tab the user selected last on the Surface of instance i, chat when none
\* was selected yet: the click handler is the only writer of state.activeTab
LastSelected(i) == surface[i].state.activeTab

\* the two streams of instance i are at rest: the Controller has dispatched
\* every inbound message and the Surface has handled every outbound one
StreamsAtRest(i) ==
  /\ Idle
  /\ inDelivered[i] = Len(inMsgs[i])
  /\ outDelivered[i] = Len(outMsgs[i])

\* C23: once every showLearningJournal that answers a journal click has been
\* handled by the Surface of a live panel, the tab displayed is the tab the
\* user selected last
C23_EchoKeepsUserChoice ==
  \A i \in Insts :
    /\ Live(i) /\ StreamsAtRest(i)
    /\ Len(OfCommand(outMsgs[i], "showLearningJournal"))
         = Len(OfCommand(inMsgs[i], "openLearningJournal"))
    => surface[i].tab = LastSelected(i)

====
